---- MODULE Spec2Model ----
(***************************************************************************)
(* Turn-based combat engine of combat_system.py: CombatStats arithmetic,   *)
(* CombatEntity actions, Enemy/Player action choice and the CombatSystem   *)
(* turn loop.  One execute_turn call is a BeginTurn step (guard, counter,  *)
(* resets, action choice, turn order) followed by one ResolveStep per      *)
(* iteration of its for-loop; nothing else can run in between.             *)
(*                                                                         *)
(* Floats: int(x * 1.5), int(x * 0.6) and int(x * 1.8) are modelled as the *)
(* exact rational product truncated toward zero, which is what the float   *)
(* expression yields for every integer in the ranges used here.            *)
(* combat_log is append-only and never read by the engine: the model keeps *)
(* its length and the entries appended by the latest execute_turn call.    *)
(***************************************************************************)
EXTENDS Integers, Sequences, FiniteSets, TLC

\* ---------------------------------------------------------------- bounds
\* execute_turn is not called once turn_count has reached MaxTurns.
MaxTurns == 5
\* execute_turn is called at most MaxRejected times on a finished battle.
MaxRejected == 2
\* get_battle_result is called at most MaxResults times.
MaxResults == 1
\* start_battle counts its turns up to MaxBattleTurns.
MaxBattleTurns == 1
\* execute_action is called directly at most MaxCalls times between resets.
MaxCalls == 2
\* Largest max_health a combatant is constructed with.
MaxHealth == 3

\* ------------------------------------------------------ program constants
AttackJitterLo == -5
AttackJitterHi == 5
SpecialJitterLo == 0
SpecialJitterHi == 10
SpeedJitterHi == 10
SpecialCooldown == 3
LowHealthPercent == 30
DefenseDivisor == 3

\* --------------------------------------------------------------- helpers
Max(a, b) == IF a >= b THEN a ELSE b
Min(a, b) == IF a <= b THEN a ELSE b

\* int(n / d) for d > 0: Python's int() truncates toward zero.
TruncDiv(n, d) == IF n >= 0 THEN n \div d ELSE -((-n) \div d)

Sides == {"player", "enemy"}
Other(s) == IF s = "player" THEN "enemy" ELSE "player"

\* class ActionType
ActionType == {"attack", "defend", "special", "item", "flee"}
\* execute_turn's player_action = None
NoAction == "none"

\* ------------------------------------------------------- CombatStats math
\* take_damage without the floor of 1
ActualDamage_NoFloor(defense, damage) == damage - (defense \div DefenseDivisor)

\* take_damage with a floor of 0
ActualDamage_FloorZero(defense, damage) ==
    Max(0, damage - (defense \div DefenseDivisor))

\* take_damage: actual_damage = max(1, damage - (self.defense // 3))
ActualDamage(defense, damage) == Max(1, damage - (defense \div DefenseDivisor))

\* take_damage without the clamp at 0
HealthAfterDamage_NoClamp(health, actual) == health - actual

\* take_damage: self.current_health = max(0, self.current_health - actual_damage)
HealthAfterDamage(health, actual) == Max(0, health - actual)

\* is_alive that counts a combatant at 0 as alive
is_alive_NonNegative(st) == st.current_health >= 0

\* is_alive
is_alive(st) == st.current_health > 0

\* get_health_percentage() < pct, with (current / max) * 100 kept exact
HealthPercentBelow(st, pct) == st.current_health * 100 < pct * st.max_health

\* ------------------------------------------------------ CombatEntity math
\* attack with the stance factor applied before the critical factor
AttackBase_StanceFirst(attack_power, jitter, is_critical, opponent_defending) ==
    LET b0 == attack_power + jitter
        b1 == IF opponent_defending THEN TruncDiv(b0 * 3, 5) ELSE b0
    IN  IF is_critical THEN TruncDiv(b1 * 3, 2) ELSE b1

\* attack: base damage handed to take_damage
AttackBase(attack_power, jitter, is_critical, opponent_defending) ==
    LET b0 == attack_power + jitter
        b1 == IF is_critical THEN TruncDiv(b0 * 3, 2) ELSE b0
    IN  IF opponent_defending THEN TruncDiv(b1 * 3, 5) ELSE b1

\* special_attack with the stance factor of attack copied into it
SpecialBase_Mitigated(attack_power, jitter, is_critical, opponent_defending) ==
    LET b0 == TruncDiv(attack_power * 9, 5) + jitter
        b1 == IF is_critical THEN TruncDiv(b0 * 3, 2) ELSE b0
    IN  IF opponent_defending THEN TruncDiv(b1 * 3, 5) ELSE b1

\* special_attack: base damage handed to take_damage (cooldown already 0)
SpecialBase(attack_power, jitter, is_critical, opponent_defending) ==
    LET b0 == TruncDiv(attack_power * 9, 5) + jitter
    IN  IF is_critical THEN TruncDiv(b0 * 3, 2) ELSE b0

\* reset_turn that decrements without looking
CooldownAfterReset_Unconditional(cd) == cd - 1

\* reset_turn: the cooldown after the reset
CooldownAfterReset(cd) == IF cd > 0 THEN cd - 1 ELSE cd

\* reset_turn on one CombatStats record
reset_stats(st) ==
    [st EXCEPT !.special_attack_cooldown = CooldownAfterReset(@)]

\* ------------------------------------------------------- action choice
\* Player.choose_action: random.choice of three actions
PlayerChoices == {"attack", "defend", "special"}

\* Enemy.__init__: clamp of ai_difficulty
ClampDifficulty(d) == Max(1, Min(3, d))

\* the difficulty tables without the low-health override
EnemyChoices_NoOverride(difficulty, st) ==
    IF difficulty = 1 THEN {"attack", "defend"}
    ELSE {"attack", "defend", "special"}

\* Enemy.choose_action: the support of the weighted list random.choice draws from
EnemyChoices(difficulty, st) ==
    IF HealthPercentBelow(st, LowHealthPercent)
    THEN {"defend", "attack"}
    ELSE IF difficulty = 1 THEN {"attack", "defend"}
         ELSE {"attack", "defend", "special"}

\* Variant with a strict comparison: a tie goes to the enemy.
TurnOrderFor_Strict(player_speed, enemy_speed, jp, je) ==
    IF player_speed + jp > enemy_speed + je
    THEN <<"player", "enemy">>
    ELSE <<"enemy", "player">>

\* determine_turn_order: the list returned for the two speed rolls
TurnOrderFor(player_speed, enemy_speed, jp, je) ==
    IF player_speed + jp >= enemy_speed + je
    THEN <<"player", "enemy">>
    ELSE <<"enemy", "player">>

\* determine_turn_order: every list the two random.randint(0, 10) rolls can give
determine_turn_order(player_speed, enemy_speed) ==
    {TurnOrderFor(player_speed, enemy_speed, jp, je) :
        jp \in 0..SpeedJitterHi, je \in 0..SpeedJitterHi}

\* execute_turn: the player's action, supplied by the caller or, for None,
\* chosen by Player.choose_action
PlayerActionFor(supplied) ==
    IF supplied = NoAction THEN PlayerChoices ELSE {supplied}

PlayerActions ==
    UNION {PlayerActionFor(supplied) : supplied \in ActionType \cup {NoAction}}

\* ----------------------------------------------------------------- state
VARIABLES
    stats,          \* side -> CombatStats fields
    is_defending,   \* side -> CombatEntity.is_defending
    ai_difficulty,  \* Enemy.ai_difficulty (clamped)
    turn_count,     \* CombatSystem.turn_count
    combat_log,     \* CombatSystem.combat_log: [len, recent]
    battle_active,  \* CombatSystem.battle_active
    pc,             \* "idle": no call running; "loop": inside execute_turn's for
    turn_order,     \* execute_turn local: turn_order
    idx,            \* execute_turn local: position of the for-loop
    player_action,  \* execute_turn local
    enemy_action,   \* execute_turn local
    returned,       \* value returned by the latest execute_turn call
    special_turns,  \* history: side -> turns on which its Special went through
    rejected_calls, \* history: execute_turn calls answered by the early return
    call,           \* history: arguments and draws of a direct method call
    result,         \* side named by the latest get_battle_result call
    result_calls,   \* history: get_battle_result calls made
    mitigated       \* history: sides whose Attack of the latest turn took the 0.6 factor

vars == <<stats, is_defending, ai_difficulty, turn_count, combat_log,
          battle_active, pc, turn_order, idx, player_action, enemy_action,
          returned, special_turns, rejected_calls, call, result, result_calls,
          mitigated>>

\* no direct execute_action call made
NoCall == [action |-> NoAction]

\* The log's length is counted below LogCap; LogCap stands for a length that
\* is no longer counted.  execute_turn calls bounded by MaxTurns never reach
\* it.
LogCap == 2 * MaxTurns + MaxResults

\* combat_log.append(entry) inside a turn
LogAppend(log, entry) ==
    [len |-> Min(log.len + 1, LogCap), recent |-> Append(log.recent, entry)]

\* one formatted log line of execute_action
Entry(kind, actor, damage, is_critical) ==
    [kind |-> kind, actor |-> actor, damage |-> damage, crit |-> is_critical]

\* ------------------------------------------------------------------ Init
\* Stat blocks the battles are constructed with.
\* <<attack_power, defense>> given to both sides of a battle
PowerDefense == {<<0, 0>>, <<3, 7>>}
\* ai_difficulty arguments given to Enemy(...)
DifficultyInputs == {0, 3}
\* speeds of the example battle: player 10, enemy 9
SpeedOf(s) == IF s = "player" THEN 10 ELSE 9

\* CombatStats(...) with 0 < current_health <= max_health and cooldown 0
StatBlock(s, health, pd) ==
    [max_health |-> MaxHealth,
     current_health |-> health,
     attack_power |-> pd[1],
     defense |-> pd[2],
     speed |-> SpeedOf(s),
     special_attack_cooldown |-> 0]

\* CombatStats(...), Player(...), Enemy(...), CombatSystem.__init__
Init ==
    /\ \E hp \in 1..MaxHealth, he \in 1..MaxHealth, pd \in PowerDefense :
          stats = [s \in Sides |->
                      StatBlock(s, IF s = "player" THEN hp ELSE he, pd)]
    /\ is_defending = [s \in Sides |-> FALSE]
    /\ ai_difficulty \in {ClampDifficulty(d) : d \in DifficultyInputs}
    /\ turn_count = 0
    /\ combat_log = [len |-> 0, recent |-> <<>>]
    /\ battle_active = TRUE
    /\ pc = "idle"
    /\ turn_order = <<>>
    /\ idx = 0
    /\ player_action = NoAction
    /\ enemy_action = NoAction
    /\ returned = "none"
    /\ special_turns = [s \in Sides |-> {}]
    /\ rejected_calls = 0
    /\ call = NoCall
    /\ result = "none"
    /\ result_calls = 0
    /\ mitigated = {}

\* ------------------------------------------------------------ operations
\* reset_turn that forgets to clear the stance
DefendingAfterReset_Keep(d) == d

\* reset_turn: self.is_defending = False
DefendingAfterReset(d) == FALSE

\* the cooldown test dropped
OnCooldown_Never(cd) == FALSE

\* special_attack / execute_action: the cooldown test "special_attack_cooldown > 0"
OnCooldown(cd) == cd > 0

\* random.randint range drawn by the action (none when no damage is rolled)
JitterRange(action, cd) ==
    IF action = "attack" THEN AttackJitterLo..AttackJitterHi
    ELSE IF action = "special" /\ ~OnCooldown(cd) THEN SpecialJitterLo..SpecialJitterHi
    ELSE {0}

\* outcomes of "random.random() < critical_chance" for the action
CritRange(action, cd) ==
    IF action = "attack" \/ (action = "special" /\ ~OnCooldown(cd))
    THEN BOOLEAN ELSE {FALSE}

\* CombatEntity.attack via execute_action's ATTACK branch
DoAttack(actor, opponent, jitter, is_critical) ==
    LET base == AttackBase(stats[actor].attack_power, jitter, is_critical,
                           is_defending[opponent])
        actual == ActualDamage(stats[opponent].defense, base)
    IN  /\ stats' = [stats EXCEPT ![opponent].current_health =
                                      HealthAfterDamage(@, actual)]
        /\ combat_log' = LogAppend(combat_log,
                                   Entry("attack", actor, actual, is_critical))
        /\ mitigated' = IF is_defending[opponent]
                        THEN mitigated \cup {actor} ELSE mitigated
        /\ UNCHANGED <<is_defending, special_turns>>

\* CombatEntity.defend via execute_action's DEFEND branch
DoDefend(actor) ==
    /\ is_defending' = [is_defending EXCEPT ![actor] = TRUE]
    /\ combat_log' = LogAppend(combat_log, Entry("defend", actor, 0, FALSE))
    /\ UNCHANGED <<stats, special_turns, mitigated>>

\* execute_action's SPECIAL branch: cooldown message or special_attack
DoSpecial(actor, opponent, jitter, is_critical) ==
    IF OnCooldown(stats[actor].special_attack_cooldown)
    THEN /\ combat_log' = LogAppend(combat_log,
                                    Entry("cooldown", actor, 0, FALSE))
         /\ UNCHANGED <<stats, is_defending, special_turns, mitigated>>
    ELSE LET base == SpecialBase(stats[actor].attack_power, jitter,
                                 is_critical, is_defending[opponent])
             actual == ActualDamage(stats[opponent].defense, base)
         IN  /\ stats' = [stats EXCEPT
                             ![opponent].current_health =
                                 HealthAfterDamage(@, actual),
                             ![actor].special_attack_cooldown = SpecialCooldown]
             /\ combat_log' = LogAppend(combat_log,
                                   Entry("special", actor, actual, is_critical))
             /\ special_turns' = [special_turns EXCEPT
                                     ![actor] = @ \cup {turn_count}]
             /\ UNCHANGED <<is_defending, mitigated>>

\* ITEM wired to CombatStats.heal(1), FLEE as in the source
DoLogOnly_ItemHeals(actor, action) ==
    /\ combat_log' = LogAppend(combat_log, Entry(action, actor, 0, FALSE))
    /\ stats' = [stats EXCEPT ![actor].current_health =
                     IF action = "item"
                     THEN @ + Min(1, stats[actor].max_health - @)
                     ELSE @]
    /\ UNCHANGED <<is_defending, special_turns, mitigated>>

\* execute_action's ITEM and FLEE branches
DoLogOnly(actor, action) ==
    /\ combat_log' = LogAppend(combat_log, Entry(action, actor, 0, FALSE))
    /\ UNCHANGED <<stats, is_defending, special_turns, mitigated>>

\* CombatSystem.execute_action
execute_action(actor, opponent, action, jitter, is_critical) ==
    CASE action = "attack" -> DoAttack(actor, opponent, jitter, is_critical)
      [] action = "defend" -> DoDefend(actor)
      [] action = "special" -> DoSpecial(actor, opponent, jitter, is_critical)
      [] OTHER -> DoLogOnly(actor, action)

\* execute_turn: "return self.battle_active" after the loop
ReturnFromTurn(active) ==
    /\ pc' = "idle"
    /\ turn_order' = <<>>
    /\ idx' = 0
    /\ player_action' = NoAction
    /\ enemy_action' = NoAction
    /\ returned' = active

\* execute_turn without its guard
TurnAllowed_Always(active) == TRUE

\* execute_turn: the guard "if not self.battle_active: return False"
TurnAllowed(active) == active

\* get_battle_result: the side named as the winner
BattleWinner == IF is_alive(stats["player"]) THEN "player" ELSE "enemy"

\* execute_turn, first half: guard, counter, resets, choices, turn order
BeginTurn ==
    /\ pc = "idle"
    /\ TurnAllowed(battle_active)
    /\ turn_count < MaxTurns
    /\ turn_count' = turn_count + 1
    /\ stats' = [s \in Sides |-> reset_stats(stats[s])]
    /\ is_defending' = [s \in Sides |-> DefendingAfterReset(is_defending[s])]
    /\ turn_order' \in determine_turn_order(stats["player"].speed,
                                            stats["enemy"].speed)
    /\ player_action' \in PlayerActions
    /\ enemy_action' \in EnemyChoices(ai_difficulty, stats'["enemy"])
    /\ idx' = 1
    /\ pc' = "loop"
    /\ returned' = "none"
    /\ combat_log' = [combat_log EXCEPT !.recent = <<>>]
    /\ mitigated' = {}
    /\ UNCHANGED <<ai_difficulty, battle_active, special_turns,
                   rejected_calls, call, result, result_calls>>

\* the for-loop's test looking for a health below 0, which take_damage's clamp
\* never leaves
BattleEnded_BelowZero(opponent_stats) == opponent_stats.current_health < 0

\* the for-loop without its break
BattleEnded_Never(opponent_stats) == FALSE

\* the for-loop's "if not opponent.stats.is_alive()" test
BattleEnded(opponent_stats) == ~is_alive(opponent_stats)

\* execute_turn, one iteration of "for entity in turn_order"
ResolveStep ==
    /\ pc = "loop"
    /\ LET entity == turn_order[idx]
           opponent == Other(entity)
           action == IF entity = "player" THEN player_action ELSE enemy_action
           cd == stats[entity].special_attack_cooldown
       IN  \E jitter \in JitterRange(action, cd),
              is_critical \in CritRange(action, cd) :
             /\ execute_action(entity, opponent, action, jitter, is_critical)
             /\ IF BattleEnded(stats'[opponent])
                THEN /\ battle_active' = FALSE
                     /\ ReturnFromTurn(FALSE)
                ELSE /\ battle_active' = battle_active
                     /\ IF idx < Len(turn_order)
                        THEN /\ idx' = idx + 1
                             /\ UNCHANGED <<pc, turn_order, player_action,
                                            enemy_action, returned>>
                        ELSE ReturnFromTurn(battle_active)
    /\ UNCHANGED <<ai_difficulty, turn_count, rejected_calls, call, result,
                   result_calls>>

\* execute_turn on a finished battle: "if not self.battle_active: return False"
RejectedTurn ==
    /\ pc = "idle"
    /\ ~TurnAllowed(battle_active)
    /\ rejected_calls < MaxRejected
    /\ rejected_calls' = rejected_calls + 1
    /\ returned' = FALSE
    /\ UNCHANGED <<stats, is_defending, ai_difficulty, turn_count, combat_log,
                   battle_active, pc, turn_order, idx, player_action,
                   enemy_action, special_turns, call, result, result_calls,
                   mitigated>>

\* get_battle_result, called between turns or after the battle.  Its
\* BATTLE WON / BATTLE LOST line counts in the log's length.
GetBattleResult ==
    /\ pc = "idle"
    /\ result_calls < MaxResults
    /\ result_calls' = result_calls + 1
    /\ result' = BattleWinner
    /\ combat_log' = [combat_log EXCEPT !.len = @ + 1]
    /\ UNCHANGED <<stats, is_defending, ai_difficulty, turn_count,
                   battle_active, pc, turn_order, idx, player_action,
                   enemy_action, returned, special_turns, rejected_calls, call,
                   mitigated>>

Next == BeginTurn \/ ResolveStep \/ RejectedTurn

Spec == Init /\ [][Next]_vars

\* A caller that plays turns and may ask for the result at any point between
\* them.
NextResult == BeginTurn \/ ResolveStep \/ GetBattleResult

SpecResult == Init /\ [][NextResult]_vars

\* ------------------------------------------- execute_action called directly
\* Stat blocks around the example battle (Hero 100/15/8, Goblin 80/12/5), with
\* weak attackers, heavy armour, nearly dead targets and a running cooldown.
UnitStatBlocks(s) ==
    [max_health : {IF s = "player" THEN 100 ELSE 80},
     current_health : {1, IF s = "player" THEN 100 ELSE 80},
     attack_power : {0, IF s = "player" THEN 15 ELSE 12},
     defense : {IF s = "player" THEN 8 ELSE 5, 40},
     speed : {SpeedOf(s)},
     special_attack_cooldown : {0, 2}]

\* A freshly built CombatSystem whose combatants may already hold a stance.
InitUnit ==
    /\ stats \in [Sides -> UnitStatBlocks("player") \cup UnitStatBlocks("enemy")]
    /\ \A s \in Sides : stats[s] \in UnitStatBlocks(s)
    /\ is_defending \in [Sides -> BOOLEAN]
    /\ ai_difficulty = 2
    /\ turn_count = 0
    /\ combat_log = [len |-> 0, recent |-> <<>>]
    /\ battle_active = TRUE
    /\ pc = "idle"
    /\ turn_order = <<>>
    /\ idx = 0
    /\ player_action = NoAction
    /\ enemy_action = NoAction
    /\ returned = "none"
    /\ special_turns = [s \in Sides |-> {}]
    /\ rejected_calls = 0
    /\ call = NoCall
    /\ result = "none"
    /\ result_calls = 0
    /\ mitigated = {}

\* CombatSystem.execute_action(actor, opponent, action, {}) called once, with
\* the random draws it consumed recorded next to its arguments
DirectCall ==
    /\ call = NoCall
    /\ \E actor \in Sides, action \in ActionType :
          LET cd == stats[actor].special_attack_cooldown
              opponent == Other(actor)
          IN  \E jitter \in JitterRange(action, cd),
                 is_critical \in CritRange(action, cd) :
                /\ execute_action(actor, opponent, action, jitter, is_critical)
                /\ call' = [action |-> action, actor |-> actor,
                            jitter |-> jitter, crit |-> is_critical,
                            health_before |-> stats[opponent].current_health,
                            cooldown_before |-> cd]
    /\ UNCHANGED <<ai_difficulty, turn_count, battle_active, pc, turn_order,
                   idx, player_action, enemy_action, returned, rejected_calls,
                   result, result_calls>>

NextUnit == DirectCall

SpecUnit == InitUnit /\ [][NextUnit]_vars

\* ------------------------------------------------------------ properties
\* the entry appended last by the latest call
LastEntry == combat_log.recent[Len(combat_log.recent)]

\* C1: in every state reached by execute_turn calls from a battle built with
\* 0 < current_health <= max_health, both combatants keep
\* 0 <= current_health <= max_health.
C1_HealthInRange ==
    \A s \in Sides :
        /\ stats[s].current_health >= 0
        /\ stats[s].current_health <= stats[s].max_health

\* A blow larger than the target's whole health bar has landed and left it at 0.
C1_Witness ==
    \E s \in Sides :
        /\ stats[s].current_health = 0
        /\ combat_log.recent # <<>>
        /\ LastEntry.actor = Other(s)
        /\ LastEntry.damage > stats[s].max_health

\* the direct call resolved an Attack or a Special that was off cooldown
CallDealtDamage ==
    \/ call.action = "attack"
    \/ call.action = "special" /\ call.cooldown_before = 0

\* the base damage the direct call handed to take_damage
CallRaw ==
    IF call.action = "attack"
    THEN AttackBase(stats[call.actor].attack_power, call.jitter, call.crit,
                    is_defending[Other(call.actor)])
    ELSE SpecialBase(stats[call.actor].attack_power, call.jitter, call.crit,
                     is_defending[Other(call.actor)])

\* C2: take_damage(raw) returns max(1, raw - defense // 3), which is >= 1 for
\* every raw (raw <= 0 and defense far above raw included), and lowers
\* current_health by min(actual, current_health); so an Attack or an eligible
\* Special against a living target strictly lowers the target's health.
C2_DamageAtLeastOne ==
    CallDealtDamage =>
        LET target == stats[Other(call.actor)]
            actual == LastEntry.damage
        IN  /\ actual = Max(1, CallRaw - (target.defense \div 3))
            /\ actual >= 1
            /\ target.current_health =
                   call.health_before - Min(actual, call.health_before)
            /\ (call.health_before > 0 =>
                   target.current_health < call.health_before)

\* A non-positive raw damage against armour worth 13 points still costs a
\* living target one point of health.
C2_Witness ==
    /\ call.action = "attack"
    /\ CallRaw <= 0
    /\ stats[Other(call.actor)].defense = 40
    /\ call.health_before > 1
    /\ stats[Other(call.actor)].current_health = call.health_before - 1

\* C3: when the first action of a turn takes the target to 0, the target's own
\* action is not resolved in that turn (no log entry, no stance, no cooldown
\* from it), the battle is terminal at once and the winner is the side still
\* alive.  Stated for every kill: the killing blow is the last thing resolved.
C3_KillEndsTurn ==
    \A s \in Sides :
        stats[s].current_health = 0 =>
            /\ pc = "idle"
            /\ ~battle_active
            /\ returned = FALSE
            /\ is_alive(stats[Other(s)])
            /\ BattleWinner = Other(s)
            /\ combat_log.recent # <<>>
            /\ LastEntry.actor = Other(s)
            /\ LastEntry.kind \in {"attack", "special"}
            /\ (Len(combat_log.recent) = 1 =>
                   /\ ~is_defending[s]
                   /\ turn_count \notin special_turns[s])

\* The first actor of a later turn has killed: one entry, by the survivor.
C3_Witness ==
    \E s \in Sides :
        /\ stats[s].current_health = 0
        /\ turn_count >= 2
        /\ Len(combat_log.recent) = 1
        /\ LastEntry.actor = Other(s)
        /\ ~battle_active

\* the latest turn in a non-empty set of turns
LatestOf(turns) == CHOOSE t \in turns : \A u \in turns : u <= t

\* C4: a Special that went through on turn N is rejected on turns N+1, N+2
\* and N+3 and goes through again on turn N+4 (or later) only.
C4_SpecialCooldown ==
    \A i \in 1..Len(combat_log.recent) :
        LET e == combat_log.recent[i]
            earlier == special_turns[e.actor] \ {turn_count}
        IN  e.kind \in {"special", "cooldown"} =>
                IF earlier # {} /\ turn_count - LatestOf(earlier) <= 3
                THEN e.kind = "cooldown"
                ELSE e.kind = "special"

\* C5: once the battle is over, an execute_turn call changes neither
\* turn_count, combat_log, health, cooldowns, stances nor the terminal status.
C5_TerminalAbsorbing ==
    [][(pc = "idle" /\ ~battle_active) =>
            /\ UNCHANGED <<turn_count, combat_log, stats, is_defending,
                           battle_active>>
            /\ BattleWinner' = BattleWinner]_vars

\* execute_turn has been called twice on a finished battle.
C5_Witness ==
    /\ ~battle_active
    /\ rejected_calls >= 2
    /\ returned = FALSE

\* C6: the damage of an eligible Special is
\* max(1, b - defense // 3) with b = int(attack_power * 1.8) + jitter, times
\* 1.5 on a critical: the same whether the target is defending or not.
C6_SpecialIgnoresStance ==
    (call.action = "special" /\ call.cooldown_before = 0) =>
        LET target == stats[Other(call.actor)]
            b0 == ((stats[call.actor].attack_power * 9) \div 5) + call.jitter
            b1 == IF call.crit THEN (b0 * 3) \div 2 ELSE b0
            dmg == Max(1, b1 - (target.defense \div 3))
        IN  /\ LastEntry.damage = dmg
            /\ target.current_health = Max(0, call.health_before - dmg)

\* A Special has hit a defending target for a damage the 0.6 factor would
\* have lowered.
C6_Witness ==
    /\ call.action = "special"
    /\ call.cooldown_before = 0
    /\ is_defending[Other(call.actor)]
    /\ LastEntry.kind = "special"
    /\ LastEntry.damage >= 20

\* C7: Attack damage is max(1, b - defense // 3), b = attack_power + jitter,
\* then floor(b * 1.5) on a critical, then floor(b * 0.6) if the target is
\* defending; 15 power, jitter 0, no critical, defense 5, no stance: 80 -> 66.
C7_AttackDamage ==
    call.action = "attack" =>
        LET target == stats[Other(call.actor)]
            b0 == stats[call.actor].attack_power + call.jitter
            b1 == IF call.crit THEN (b0 * 3) \div 2 ELSE b0
            b2 == IF is_defending[Other(call.actor)] THEN (b1 * 3) \div 5 ELSE b1
            dmg == Max(1, b2 - (target.defense \div 3))
        IN  /\ LastEntry.damage = dmg
            /\ target.current_health = Max(0, call.health_before - dmg)
            /\ (/\ stats[call.actor].attack_power = 15
                /\ call.jitter = 0
                /\ ~call.crit
                /\ target.defense = 5
                /\ ~is_defending[Other(call.actor)]
                /\ call.health_before = 80
                => target.current_health = 66)

\* The example: Hero (15) attacks Goblin (defense 5, 80 HP), midpoint rolls.
C7_Witness ==
    /\ call.action = "attack"
    /\ call.actor = "player"
    /\ stats["player"].attack_power = 15
    /\ call.jitter = 0
    /\ ~call.crit
    /\ stats["enemy"].defense = 5
    /\ ~is_defending["enemy"]
    /\ call.health_before = 80
    /\ stats["enemy"].current_health = 66

\* C8: when a turn's actions have been chosen and none is resolved yet, no
\* combatant is defending, whatever happened on earlier turns.
C8_NoStanceCarriedOver ==
    (pc = "loop" /\ idx = 1) => \A s \in Sides : ~is_defending[s]

\* Turn 2 is about to resolve its first action after a turn 1 that logged two
\* entries and hurt nobody: neither action was an Attack or a Special (both are
\* off cooldown on turn 1 and cost at least 1), and the enemy never picks Item
\* or Flee, so the enemy resolved a Defend on turn 1.
C8_Witness ==
    /\ pc = "loop"
    /\ idx = 1
    /\ turn_count = 2
    /\ combat_log.len = 2
    /\ \A s \in Sides : stats[s].current_health = stats[s].max_health

\* the combatant and action the loop is about to resolve (pc = "loop")
CurActor == turn_order[idx]
CurAction == IF CurActor = "player" THEN player_action ELSE enemy_action

\* C9: a Special attempted with cooldown > 0 appends exactly one cooldown
\* entry and changes nothing else: health, cooldowns and stances stay, and the
\* battle stays in progress.
C9_CooldownNoOp ==
    [][(/\ pc = "loop"
        /\ CurAction = "special"
        /\ stats[CurActor].special_attack_cooldown > 0) =>
            /\ combat_log'.len = combat_log.len + 1
            /\ combat_log'.recent =
                   Append(combat_log.recent,
                          Entry("cooldown", CurActor, 0, FALSE))
            /\ stats' = stats
            /\ is_defending' = is_defending
            /\ battle_active
            /\ battle_active']_vars

\* A cooldown entry is the latest entry of a battle still in progress.
C9_Witness ==
    /\ combat_log.recent # <<>>
    /\ LastEntry.kind = "cooldown"
    /\ stats[LastEntry.actor].special_attack_cooldown > 0
    /\ battle_active

\* C10: Item and Flee append exactly one entry and change nothing else; the
\* battle stays in progress.
C10_ItemFleeLogOnly ==
    [][(pc = "loop" /\ CurAction \in {"item", "flee"}) =>
            /\ combat_log'.len = combat_log.len + 1
            /\ combat_log'.recent =
                   Append(combat_log.recent, Entry(CurAction, CurActor, 0, FALSE))
            /\ stats' = stats
            /\ is_defending' = is_defending
            /\ battle_active
            /\ battle_active']_vars

\* A later turn ended on the player's Flee and the battle goes on.
C10_Witness ==
    /\ pc = "idle"
    /\ combat_log.recent # <<>>
    /\ LastEntry.kind = "flee"
    /\ battle_active
    /\ turn_count >= 2

\* ------------------------------------- determine_turn_order called directly
\* Speeds around the example battle (10 against 9): equal speeds, a gap the
\* jitter can close and a gap it cannot.
OrderSpeeds == {0, 9, 10, 25}

\* The fields CombatSystem.__init__ sets, and the history of a system on which
\* nothing has been called yet.
FreshSystem ==
    /\ is_defending = [s \in Sides |-> FALSE]
    /\ turn_count = 0
    /\ combat_log = [len |-> 0, recent |-> <<>>]
    /\ battle_active = TRUE
    /\ pc = "idle"
    /\ turn_order = <<>>
    /\ idx = 0
    /\ player_action = NoAction
    /\ enemy_action = NoAction
    /\ returned = "none"
    /\ special_turns = [s \in Sides |-> {}]
    /\ rejected_calls = 0
    /\ call = NoCall
    /\ result = "none"
    /\ result_calls = 0
    /\ mitigated = {}

InitOrder ==
    /\ \E ps \in OrderSpeeds, es \in OrderSpeeds :
          stats = [s \in Sides |->
                     [StatBlock(s, MaxHealth, <<3, 7>>)
                        EXCEPT !.speed = IF s = "player" THEN ps ELSE es]]
    /\ ai_difficulty = 2
    /\ FreshSystem

\* CombatSystem.determine_turn_order(), with its two rolls recorded; every call
\* rolls again.
OrderCall ==
    /\ \E jp \in 0..SpeedJitterHi, je \in 0..SpeedJitterHi :
          /\ turn_order' = TurnOrderFor(stats["player"].speed,
                                        stats["enemy"].speed, jp, je)
          /\ call' = [action |-> "order", jp |-> jp, je |-> je]
    /\ UNCHANGED <<stats, is_defending, ai_difficulty, turn_count, combat_log,
                   battle_active, pc, idx, player_action, enemy_action,
                   returned, special_turns, rejected_calls, result,
                   result_calls, mitigated>>

NextOrder == OrderCall

SpecOrder == InitOrder /\ [][NextOrder]_vars

\* C11: the order is [player, enemy] exactly when the player's speed plus its
\* roll is at least the enemy's speed plus its roll, and [enemy, player]
\* otherwise; a tie goes to the player.
C11_TurnOrder ==
    call.action = "order" =>
        LET player_roll == stats["player"].speed + call.jp
            enemy_roll == stats["enemy"].speed + call.je
        IN  /\ turn_order \in {<<"player", "enemy">>, <<"enemy", "player">>}
            /\ turn_order = <<"player", "enemy">> <=> player_roll >= enemy_roll
            /\ turn_order = <<"enemy", "player">> <=> player_roll < enemy_roll

\* Equal speeds and equal rolls: the player is first.
C11_Witness ==
    /\ call.action = "order"
    /\ stats["player"].speed = stats["enemy"].speed
    /\ call.jp = call.je
    /\ turn_order = <<"player", "enemy">>

\* C13: get_battle_result names a winner only once the battle is over; while
\* both sides are alive and the battle is in progress no side has been
\* reported as the winner.
C13_ResultOnlyWhenTerminal ==
    result \in Sides => ~battle_active

\* C14: an execute_turn call on a finished battle signals an error, an outcome
\* that no normally executed turn gives (those return True or False).
C14_RejectedSignalsError ==
    rejected_calls > 0 => returned \notin BOOLEAN

\* the side has an entry of this kind among the latest turn's entries
Resolved(side, kind) ==
    \E i \in DOMAIN combat_log.recent :
        /\ combat_log.recent[i].actor = side
        /\ combat_log.recent[i].kind = kind

\* C16: when one side's Attack and the other side's Defend are both resolved
\* on a turn, that Attack took the 0.6 factor whichever of the two was
\* resolved first; and an Attack takes the factor only from a Defend of its
\* own turn, never from an earlier turn's.
C16_DefendCoversAttack ==
    \A s \in Sides :
        /\ (Resolved(s, "attack") /\ Resolved(Other(s), "defend"))
               => s \in mitigated
        /\ s \in mitigated
               => (Resolved(s, "attack") /\ Resolved(Other(s), "defend"))

\* --------------------------------------------- CombatStats(...) constructed
\* critical_chance is held in percent: the default 0.15 is 15.
DefaultCriticalChance == 15

\* The dataclass constructor: every argument is stored as given.
CombatStats(max_health, current_health, attack_power, defense, speed, critical_chance) ==
    [max_health |-> max_health,
     current_health |-> current_health,
     attack_power |-> attack_power,
     defense |-> defense,
     speed |-> speed,
     critical_chance |-> critical_chance,
     special_attack_cooldown |-> 0]

\* Arguments on both sides of each range the Stat Block is supposed to keep.
MaxHealthArgs == {-1, 0, MaxHealth}
HealthArgs == {-1, 0, MaxHealth, MaxHealth + 1}
CriticalArgs == {-10, 0, DefaultCriticalChance, 100, 150}

InitConstruct ==
    /\ stats = [s \in Sides |->
                  CombatStats(MaxHealth, MaxHealth, 3, 7, SpeedOf(s),
                              DefaultCriticalChance)]
    /\ ai_difficulty = 2
    /\ FreshSystem

\* stats = CombatStats(...) for one of the two combatants, as the example usage
\* builds them before Player(...) and Enemy(...)
ConstructCall ==
    /\ \E s \in Sides, mh \in MaxHealthArgs, ch \in HealthArgs,
          cc \in CriticalArgs :
          /\ stats' = [stats EXCEPT
                         ![s] = CombatStats(mh, ch, 3, 7, SpeedOf(s), cc)]
          /\ call' = [action |-> "construct", actor |-> s, max_health |-> mh,
                      current_health |-> ch, critical_chance |-> cc]
    /\ UNCHANGED <<is_defending, ai_difficulty, turn_count, combat_log,
                   battle_active, pc, turn_order, idx, player_action,
                   enemy_action, returned, special_turns, rejected_calls,
                   result, result_calls, mitigated>>

NextConstruct == ConstructCall

SpecConstruct == InitConstruct /\ [][NextConstruct]_vars

\* C15: every Stat Block that exists has max_health > 0, current_health in
\* 0..max_health and critical_chance in [0, 1], because a construction with
\* other arguments fails.
C15_ConstructionValidated ==
    \A s \in Sides :
        /\ stats[s].max_health > 0
        /\ stats[s].current_health \in 0..stats[s].max_health
        /\ stats[s].critical_chance \in 0..100

\* ---------------------------------------- Enemy.choose_action called directly
\* ai_difficulty arguments on both sides of the clamp
RawDifficulties == -1..5

\* Enemy health of the example battle's 80: nearly dead, just below 30 percent
\* (23), exactly 30 percent (24) and full.
EnemyHealths == {1, 23, 24, 80}

\* Target health of the example battle's 100: nearly dead and full.
TargetHealths == {1, 100}

\* Enemy(name, stats, ai_difficulty) with the argument recorded, facing a
\* player, in a fresh CombatSystem.
InitPolicy ==
    /\ \E d \in RawDifficulties, he \in EnemyHealths, hp \in TargetHealths :
          /\ stats = [player |-> CombatStats(100, hp, 15, 8, 10,
                                             DefaultCriticalChance),
                      enemy |-> CombatStats(80, he, 12, 5, 9,
                                            DefaultCriticalChance)]
          /\ ai_difficulty = ClampDifficulty(d)
          /\ call = [action |-> "Enemy", ai_difficulty |-> d]
    /\ is_defending = [s \in Sides |-> FALSE]
    /\ turn_count = 0
    /\ combat_log = [len |-> 0, recent |-> <<>>]
    /\ battle_active = TRUE
    /\ pc = "idle"
    /\ turn_order = <<>>
    /\ idx = 0
    /\ player_action = NoAction
    /\ enemy_action = NoAction
    /\ returned = "none"
    /\ special_turns = [s \in Sides |-> {}]
    /\ rejected_calls = 0
    /\ result = "none"
    /\ result_calls = 0
    /\ mitigated = {}

\* enemy.choose_action(player): one draw of random.choice
ChooseCall ==
    /\ enemy_action' \in EnemyChoices(ai_difficulty, stats["enemy"])
    /\ call' = [action |-> "choose", ai_difficulty |-> call.ai_difficulty]
    /\ UNCHANGED <<stats, is_defending, ai_difficulty, turn_count, combat_log,
                   battle_active, pc, turn_order, idx, player_action, returned,
                   special_turns, rejected_calls, result, result_calls,
                   mitigated>>

NextPolicy == ChooseCall

SpecPolicy == InitPolicy /\ [][NextPolicy]_vars

\* C17: the tier is the argument clamped to 1..3; the actions the enemy can
\* choose are Attack and Defend when the tier is 1 or its own health is below
\* 30 percent, and Attack, Defend and Special otherwise, whatever the target's
\* health; Item and Flee are never chosen.
C17_EnemyPolicy ==
    LET own == stats["enemy"]
        low == own.current_health * 100 < 30 * own.max_health
        expected == IF ai_difficulty = 1 \/ low
                    THEN {"attack", "defend"}
                    ELSE {"attack", "defend", "special"}
        d == call.ai_difficulty
    IN  /\ ai_difficulty = (IF d < 1 THEN 1 ELSE IF d > 3 THEN 3 ELSE d)
        /\ EnemyChoices(ai_difficulty, own) = expected
        /\ call.action = "choose" => enemy_action \in expected
        /\ enemy_action \notin {"item", "flee"}

\* A hard enemy just below 30 percent of its health chose Defend against a
\* nearly dead target.
C17_Witness ==
    /\ call.action = "choose"
    /\ ai_difficulty = 3
    /\ stats["enemy"].current_health = 23
    /\ stats["player"].current_health = 1
    /\ enemy_action = "defend"

\* C19: between execute_turn calls the battle is in progress exactly when
\* both combatants have health above 0; the two are never at 0 together, so a
\* finished battle has exactly one combatant alive.
C19_ActiveIffBothAlive ==
    LET alive == {s \in Sides : stats[s].current_health > 0}
    IN  /\ pc = "idle" => (battle_active <=> alive = Sides)
        /\ alive # {}
        /\ ~battle_active => Cardinality(alive) = 1

\* The player has fallen on the second turn or later, the enemy stands.
C19_Witness ==
    /\ pc = "idle"
    /\ ~battle_active
    /\ turn_count >= 2
    /\ stats["player"].current_health = 0
    /\ stats["enemy"].current_health > 0

\* C20: whenever an action is about to be resolved inside execute_turn, the
\* combatant it belongs to has health above 0; so the combatant whose action
\* was resolved last is alive.
C20_NoDeadActor ==
    /\ pc = "loop" => stats[turn_order[idx]].current_health > 0
    /\ combat_log.recent # <<>> => stats[LastEntry.actor].current_health > 0

\* The second combatant of the turn has been hit by the first, has survived
\* and is about to act.
C20_Witness ==
    /\ pc = "loop"
    /\ idx = 2
    /\ combat_log.recent[1].kind \in {"attack", "special"}
    /\ combat_log.recent[1].actor = turn_order[1]
    /\ stats[turn_order[2]].current_health < stats[turn_order[2]].max_health
    /\ stats[turn_order[2]].current_health > 0

\* ------------------------------------------------------------ start_battle
\* Armour heavy enough that every hit is held to take_damage's floor of 1:
\* the slowest battle there is.
BattlePowerDefense == {<<0, 60>>}

\* The battle start_battle runs: both combatants at full health.
InitBattle ==
    /\ \E pd \in BattlePowerDefense :
          stats = [s \in Sides |-> StatBlock(s, MaxHealth, pd)]
    /\ ai_difficulty = 2
    /\ FreshSystem

\* start_battle: "while self.battle_active: self.execute_turn()", the first
\* half of the turn.  The player's action comes from Player.choose_action;
\* turn_count is counted up to MaxBattleTurns, which stands for that many or
\* more; from then on the log's length is not counted either.
StartBattleTurn ==
    /\ pc = "idle"
    /\ battle_active
    /\ turn_count' = Min(turn_count + 1, MaxBattleTurns)
    /\ stats' = [s \in Sides |-> reset_stats(stats[s])]
    /\ is_defending' = [s \in Sides |-> DefendingAfterReset(is_defending[s])]
    /\ turn_order' \in determine_turn_order(stats["player"].speed,
                                            stats["enemy"].speed)
    /\ player_action' \in PlayerChoices
    /\ enemy_action' \in EnemyChoices(ai_difficulty, stats'["enemy"])
    /\ idx' = 1
    /\ pc' = "loop"
    /\ returned' = "none"
    /\ combat_log' = [len |-> IF turn_count < MaxBattleTurns
                              THEN combat_log.len ELSE LogCap,
                      recent |-> <<>>]
    /\ mitigated' = {}
    /\ UNCHANGED <<ai_difficulty, battle_active, special_turns,
                   rejected_calls, call, result, result_calls>>

\* A turn on which some side chose Attack, or Special with its cooldown run out
HostileTurn ==
    /\ StartBattleTurn
    /\ \/ "attack" \in {player_action', enemy_action'}
       \/ /\ player_action' = "special"
          /\ ~OnCooldown(stats'["player"].special_attack_cooldown)
       \/ /\ enemy_action' = "special"
          /\ ~OnCooldown(stats'["enemy"].special_attack_cooldown)

\* start_battle: the loop has ended, "return self.get_battle_result()"
ReturnFromBattle ==
    /\ pc = "idle"
    /\ ~battle_active
    /\ pc' = "done"
    /\ result' = BattleWinner
    /\ result_calls' = result_calls + 1
    /\ combat_log' = [combat_log EXCEPT !.len = Min(@ + 1, LogCap)]
    /\ UNCHANGED <<stats, is_defending, ai_difficulty, turn_count,
                   battle_active, turn_order, idx, player_action,
                   enemy_action, returned, special_turns, rejected_calls, call,
                   mitigated>>

NextBattle == StartBattleTurn \/ ResolveStep \/ ReturnFromBattle

\* random.choice gives Attack a positive weight in every list it draws from,
\* so turns on which some side attacks keep coming while the loop runs.
SpecBattle ==
    /\ InitBattle
    /\ [][NextBattle]_vars
    /\ WF_vars(NextBattle)
    /\ SF_vars(HostileTurn)

\* C18: start_battle returns: under the fairness of SpecBattle the loop ends
\* with the battle over and the result taken.
C18_BattleTerminates ==
    <>(pc = "done" /\ ~battle_active /\ result \in Sides)

\* start_battle has returned the enemy as the winner after more turns than
\* are counted.
C18_Witness ==
    /\ pc = "done"
    /\ turn_count = MaxBattleTurns
    /\ combat_log.len = LogCap
    /\ ~battle_active
    /\ result = "enemy"

\* ------------------------------ reset_turn and execute_action in any order
\* Two combatants at full health that have never used Special.
InitReset ==
    /\ \E pd \in PowerDefense :
          stats = [s \in Sides |-> StatBlock(s, MaxHealth, pd)]
    /\ ai_difficulty = 2
    /\ FreshSystem

\* The two ends of the range a call's random.randint draws from.
JitterEnds(action, cd) ==
    LET range == JitterRange(action, cd)
    IN  {j \in range : (\A k \in range : j <= k) \/ (\A k \in range : j >= k)}

\* entity.reset_turn() called on one combatant; streak counts the resets of
\* that combatant since the last other call (2 stands for two or more)
ResetCall ==
    /\ \E s \in Sides :
          /\ stats' = [stats EXCEPT ![s] = reset_stats(@)]
          /\ is_defending' = [is_defending EXCEPT ![s] = DefendingAfterReset(@)]
          /\ call' = [action |-> "reset", actor |-> s,
                      cooldown_before |-> stats[s].special_attack_cooldown,
                      streak |-> IF call.action = "reset" /\ call.actor = s
                                 THEN 2 ELSE 1]
    /\ UNCHANGED <<ai_difficulty, turn_count, combat_log, battle_active, pc,
                   turn_order, idx, player_action, enemy_action, returned,
                   special_turns, rejected_calls, result, result_calls,
                   mitigated>>

\* execute_action called between the resets
ActionCall ==
    /\ combat_log.len < MaxCalls
    /\ \E actor \in Sides, action \in ActionType :
          LET cd == stats[actor].special_attack_cooldown
          IN  \E jitter \in JitterEnds(action, cd),
                 is_critical \in CritRange(action, cd) :
                /\ execute_action(actor, Other(actor), action, jitter,
                                  is_critical)
                /\ call' = [action |-> action, actor |-> actor]
    /\ UNCHANGED <<ai_difficulty, turn_count, battle_active, pc, turn_order,
                   idx, player_action, enemy_action, returned, rejected_calls,
                   result, result_calls>>

NextReset == ResetCall \/ ActionCall

SpecReset == InitReset /\ [][NextReset]_vars

\* C12: a cooldown that starts at 0 stays in 0..3 whatever is called, and a
\* reset_turn on a combatant with cooldown 0, the first or a repeated one,
\* leaves the cooldown at 0 and the stance cleared.
C12_CooldownNeverNegative ==
    /\ \A s \in Sides :
          stats[s].special_attack_cooldown \in 0..SpecialCooldown
    /\ (call.action = "reset" /\ call.cooldown_before = 0) =>
          /\ stats[call.actor].special_attack_cooldown = 0
          /\ ~is_defending[call.actor]

\* reset_turn twice in a row on a combatant with cooldown 0, while the other
\* combatant's cooldown is running.
C12_Witness ==
    /\ call.action = "reset"
    /\ call.streak = 2
    /\ call.cooldown_before = 0
    /\ stats[call.actor].special_attack_cooldown = 0
    /\ stats[Other(call.actor)].special_attack_cooldown > 0

====
